---- MODULE Spec2Model ----
(***************************************************************************)
(* CHIP-8 emulator (src/src/lib.rs): the Chip8 machine, its opcode         *)
(* handlers, and the drive loop `run` that polls the keyboard, executes    *)
(* one cycle and drains the draw queue onto the terminal.                  *)
(***************************************************************************)
EXTENDS Integers, Sequences, FiniteSets, TLC

(* ------------------------------ constants ------------------------------ *)

INSTRUCTIONS_START == 512
SCREEN_WIDTH == 64
SCREEN_HEIGHT == 32
FONT_START == 80
RAM_SIZE == 4096
NUM_KEYS == 16
SLEEP_MS == 2

FONT ==
  << 240, 144, 144, 144, 240,
     32, 96, 32, 32, 112,
     240, 16, 240, 128, 240,
     240, 16, 240, 16, 240,
     144, 144, 240, 16, 16,
     240, 128, 240, 16, 240,
     240, 128, 240, 144, 240,
     240, 16, 32, 64, 64,
     240, 144, 240, 144, 240,
     240, 144, 240, 16, 240,
     240, 144, 240, 144, 144,
     224, 144, 224, 144, 224,
     240, 128, 128, 128, 240,
     224, 144, 144, 144, 224,
     240, 128, 240, 128, 240,
     240, 128, 240, 128, 128 >>

(* keys of KEYBOARD_MAP: every chip8 key index has one character *)
KEYBOARD_MAP == 0 .. (NUM_KEYS - 1)

(* ------------------------------- bounds -------------------------------- *)

\* key presses delivered by getch in one run
MaxPresses == 2
\* loop iterations that take StallMs longer than the 2 ms sleep
MaxStalls == 1
\* the clock (ms since construction) stops the run at this value
MaxClock == 1030
\* depth of the call stack
MaxStack == 2

StallMs == 1000 - SLEEP_MS

(* ------------------------- integer bit operations ---------------------- *)

RECURSIVE BitAnd(_, _)
BitAnd(a, b) ==
  IF a = 0 \/ b = 0 THEN 0
  ELSE (a % 2) * (b % 2) + 2 * BitAnd(a \div 2, b \div 2)

Pow2(k) == CASE k = 0 -> 1 [] k = 1 -> 2 [] k = 2 -> 4 [] k = 3 -> 8
             [] k = 4 -> 16 [] k = 5 -> 32 [] k = 6 -> 64 [] k = 7 -> 128

Min(a, b) == IF a < b THEN a ELSE b

\* instruction word from its four nibbles
Op(a, b, c, d) == 4096 * a + 256 * b + 16 * c + d
\* instruction word from a nibble, a register and a byte
OpB(a, x, nn) == 4096 * a + 256 * x + nn
\* instruction word from a nibble and a 12-bit address
OpA(a, nnn) == 4096 * a + nnn

Family(instr) == instr \div 4096
RegX(instr) == (instr \div 256) % 16
RegY(instr) == (instr \div 16) % 16
Low4(instr) == instr % 16
Low8(instr) == instr % 256
Low12(instr) == instr % 4096

VARIABLES
  ram,          \* [u8; 4096]
  stack,        \* Vec<u16>
  pixels,       \* [[Pixel; SCREEN_HEIGHT]; SCREEN_WIDTH]
  v,            \* [u8; 16]
  i,            \* u16
  pc,           \* u16
  keys,         \* [Key; 16]
  delay_timer,  \* Timer {start_count, start_instant}
  sound_timer,  \* u8
  draw_queue,   \* Vec<(u8, u8, Pixel)>
  screen,       \* the ncurses window the run loop draws on
  clock,        \* time::Instant::now(), in ms since construction
  at,           \* position in the run loop: "getch", "cycle", "draw"
  status,       \* "running", or "panicked" once a panic has aborted the process
  presses,      \* key presses delivered so far
  stalls,       \* long iterations so far
  hist          \* machine state before each of the last two cycles

chip == <<ram, stack, pixels, v, i, pc, keys, delay_timer, sound_timer, draw_queue>>
vars == <<ram, stack, pixels, v, i, pc, keys, delay_timer, sound_timer, draw_queue,
          screen, clock, at, status, presses, stalls, hist>>

(* ----------------------------- program images -------------------------- *)

\* byte values loaded into registers by the sample programs
ByteVals == {0, 1, 100, 155, 156, 255}
\* register pairs (x, y) used by the two-register sample programs
RegPairs == {<<0, 1>>, <<1, 1>>, <<3, 15>>, <<15, 3>>}
\* keys the keyboard delivers in the sample runs
KeySamples == {5, 15}

\* screen positions (Vx, Vy) of the drawn sprites: inside, on the right and
\* bottom edges, and past them
DrawPos == {<<0, 0>>, <<2, 1>>, <<62, 29>>, <<63, 31>>, <<64, 10>>, <<255, 255>>}
\* sprite addresses: glyph 0, glyph 1, the program itself
SpriteAt == {80, 85, 512}
\* sprite heights
SpriteRows == {0, 1, 5, 15}

\* [6x a] [6y b] [8xy4 | 8xy5]
AluPrograms ==
  { <<OpB(6, r[1], a), OpB(6, r[2], b), Op(8, r[1], r[2], k)>> :
      r \in RegPairs, a \in ByteVals, b \in ByteVals, k \in {4, 5} }

\* [6y b] [6x a] [8xyk], k = 0, 2, 6, and the skip 9xy0
MoreAluPrograms ==
  { <<OpB(6, r[2], 100), OpB(6, r[1], a), Op(k[1], r[1], r[2], k[2]), 224>> :
      r \in RegPairs \cup {<<15, 15>>}, a \in ByteVals,
      k \in {<<8, 0>>, <<8, 2>>, <<8, 6>>, <<9, 0>>} }

\* glyph 0 drawn, cleared and drawn again
ClearPrograms == { <<OpA(10, 80), Op(13, 0, 0, 5), 224, Op(13, 0, 0, 5)>> }

\* [6x a] [7x b] [3x nn] [00E0] [4x nn] [00E0]
ConstPrograms ==
  { <<OpB(6, 2, a), OpB(7, 2, b), OpB(3, 2, 0), 224, OpB(4, 2, 0), 224>> :
      a \in {0, 1, 255}, b \in {0, 1, 255} }

\* glyph 0 at (a,b), then a sprite drawn twice over it, a clear, the sprite again
DrawPrograms ==
  { <<OpB(6, 0, p[1]), OpB(6, 1, p[2]), OpA(10, 80), Op(13, 0, 1, 5), OpA(10, addr),
      Op(13, 0, 1, n), Op(13, 0, 1, n), 224, Op(13, 0, 1, n)>> :
      p \in DrawPos, addr \in SpriteAt, n \in SpriteRows }

\* sprites drawn at coordinates held in VF; glyph 0 is already at (0,0)
FlagDrawPrograms ==
  { <<OpA(10, 80), Op(13, 0, 0, 5), OpB(6, 15, a), Op(13, r[1], r[2], 5),
      Op(13, r[1], r[2], 5)>> :
      a \in {0, 1, 2}, r \in {<<15, 15>>, <<15, 0>>, <<0, 15>>} }

\* a sprite whose rows run past the end of ram: [6x 157] [A nnn] [Fx33] [D00n]
EdgeDrawPrograms ==
  { <<OpB(6, 0, 157), OpA(10, 4093), OpB(15, 0, 51), OpB(6, 0, 0), Op(13, 0, 0, n)>> :
      n \in {3, 5} }

\* [6x k] [Ex9E] [ExA1] [Ex9E] [6y k2] [EyA1]
KeyPrograms ==
  { <<OpB(6, 4, k), OpB(14, 4, 158), OpB(14, 4, 161), OpB(14, 4, 158),
      OpB(6, 5, k2), OpB(14, 5, 161), OpB(14, 5, 158)>> :
      k \in {0, 5, 15}, k2 \in {5, 15, 16} }

\* calls and returns; a return on the empty stack; a call of itself
CallPrograms ==
  { <<OpA(2, 518), OpB(6, 0, 1), 238, 238>>,
    <<OpA(2, 516), 238, OpA(2, 520), 238, 238>>,
    <<238>>,
    <<OpB(6, 0, 1), 238>>,
    <<OpA(2, 512)>>,
    <<OpA(1, 516), 0, 224>>,
    <<OpA(1, 4094)>>,
    <<OpA(1, 4095)>>,
    <<OpA(2, 4095)>> }

\* [A nnn] [6x a] [Fx1E] [Fy1E]
IndexPrograms ==
  { <<OpA(10, nnn), OpB(6, x, a), OpB(15, x, 30), OpB(15, 15, 30)>> :
      nnn \in {0, 4000, 4095}, x \in {0, 15}, a \in {0, 1, 95, 96, 255} }

\* [6x a] [Fx29] [Dxx5]
GlyphPrograms ==
  { <<OpB(6, 0, a), OpB(15, 0, 41), Op(13, 0, 0, 5)>> : a \in {0, 10, 15, 16, 255} }

\* [6x a] [A nnn] [Fx33] [Fy65]
BcdPrograms ==
  { <<OpB(6, 0, a), OpA(10, nnn), OpB(15, 0, 51), OpB(15, y, 101)>> :
      a \in {0, 9, 100, 157, 255}, nnn \in {80, 157, 768, 4093, 4094, 4095},
      y \in {0, 2, 15} }

\* [6x s] [Fx15] [Fy07] [Fy07] [Fx18] [Fy07]
TimerPrograms ==
  { <<OpB(6, 0, s), OpB(15, 0, 21), OpB(15, 1, 7), OpB(15, 1, 7), OpB(15, 0, 24),
      OpB(15, 1, 7)>> : s \in {0, 1, 60, 255} }

\* [6x s] [Fx15] and ten [Fy07], read every SLEEP_MS across the first tick
LongTimerPrograms ==
  { <<OpB(6, 0, s), OpB(15, 0, 21)>> \o [k \in 1 .. 10 |-> OpB(15, 1, 7)] : s \in {1, 60} }

\* [Cx nn]
RandPrograms == { <<OpB(12, 0, nn)>> : nn \in {0, 15, 255} }

\* words no arm of the decoder takes, and the empty rom
BadPrograms ==
  { <<>>, <<OpA(0, 291)>>, <<OpA(5, 0)>>, <<OpA(11, 768)>>, <<Op(8, 0, 1, 1)>>,
    <<Op(8, 0, 1, 7)>>, <<Op(9, 0, 1, 1)>>, <<OpB(14, 0, 0)>>, <<OpB(15, 0, 85)>>,
    <<OpA(0, 225)>>, <<Op(8, 0, 1, 3)>>, <<Op(8, 0, 1, 14)>>, <<OpB(14, 0, 159)>>,
    <<OpB(15, 0, 10)>>, <<OpB(15, 15, 255)>> }

Programs ==
  AluPrograms \cup MoreAluPrograms \cup ConstPrograms \cup ClearPrograms \cup DrawPrograms
    \cup FlagDrawPrograms \cup EdgeDrawPrograms \cup KeyPrograms \cup CallPrograms
    \cup IndexPrograms \cup GlyphPrograms \cup BcdPrograms \cup TimerPrograms
    \cup LongTimerPrograms \cup RandPrograms \cup BadPrograms

\* the rom file: the program's words, big-endian
RomBytes(prog) ==
  [k \in 1 .. 2 * Len(prog) |->
     IF k % 2 = 1 THEN prog[(k + 1) \div 2] \div 256 ELSE prog[k \div 2] % 256]

(* ------------------------------ construction --------------------------- *)

\* The ram array is held as the function from the addresses that were stored
\* to since `[0; 4096]` to their bytes; every other address of 0 .. 4095 holds 0.
\* ram[a]
peek(mem, a) == IF a \in DOMAIN mem THEN mem[a] ELSE 0
\* ram[a] = b
poke(mem, a, b) == [x \in DOMAIN mem \cup {a} |-> IF x = a THEN b ELSE mem[x]]

\* Chip8::initialize: the rom at INSTRUCTIONS_START, then the font at FONT_START
InitialRam(rom) ==
  LET rom_at == { INSTRUCTIONS_START + k - 1 : k \in 1 .. Len(rom) }
      font_at == { FONT_START + k - 1 : k \in 1 .. Len(FONT) }
  IN [a \in rom_at \cup font_at |->
        IF a \in font_at THEN FONT[a - FONT_START + 1]
        ELSE rom[a - INSTRUCTIONS_START + 1]]

\* The pixel array is held as the set of the coordinates <<x, y>> whose pixel is
\* On; every other coordinate of the SCREEN_WIDTH x SCREEN_HEIGHT grid is Off.
Grid == (0 .. (SCREEN_WIDTH - 1)) \X (0 .. (SCREEN_HEIGHT - 1))
\* pixels[x][y]
pixel(px, x, y) == IF <<x, y>> \in px THEN "On" ELSE "Off"
\* pixels[x][y] = p
set_pixel(px, x, y, p) == IF p = "On" THEN px \cup {<<x, y>>} ELSE px \ {<<x, y>>}
\* [[Pixel::Off; SCREEN_HEIGHT]; SCREEN_WIDTH]
AllOff == {}
\* The terminal window is held as the set of the cells <<x, y>> that show '#';
\* every other cell shows ' ', as after initscr.
Blank == {}

Init ==
  /\ \E prog \in Programs : ram = InitialRam(RomBytes(prog))
  /\ stack = <<>>
  /\ pixels = AllOff
  /\ v = [r \in 0 .. 15 |-> 0]
  /\ i = 0
  /\ pc = INSTRUCTIONS_START
  /\ keys = [k \in 0 .. (NUM_KEYS - 1) |-> "Up"]
  /\ delay_timer = [start_count |-> 0, start_instant |-> 0]
  /\ sound_timer = 0
  /\ draw_queue = <<>>
  /\ screen = Blank
  /\ clock = 0
  /\ at = "getch"
  /\ status = "running"
  /\ presses = 0
  /\ stalls = 0
  /\ hist = <<>>

(* ------------------------------ the run loop --------------------------- *)

\* run, lines 591-597: getch returns no key, or a mapped key that is set Down
GetKey ==
  /\ status = "running"
  /\ at = "getch"
  /\ \/ UNCHANGED <<keys, presses>>
     \/ /\ presses < MaxPresses
        /\ \E key \in KeySamples \cap KEYBOARD_MAP :
             keys' = [keys EXCEPT ![key] = "Down"]
        /\ presses' = presses + 1
  /\ at' = "cycle"
  /\ UNCHANGED <<ram, stack, pixels, v, i, pc, delay_timer, sound_timer, draw_queue,
                 screen, clock, status, stalls, hist>>

\* the character mvaddch writes for a queued pixel
Glyph(p) == IF p = "On" THEN "#" ELSE " "

\* mvaddch(y, x, ch)
mvaddch(surface, y, x, ch) ==
  IF ch = "#" THEN surface \cup {<<x, y>>} ELSE surface \ {<<x, y>>}

\* the for loop over draw_queue: the items in order, the last one last
RECURSIVE Paint(_, _)
Paint(surface, queue) ==
  IF queue = <<>> THEN surface
  ELSE LET item == queue[Len(queue)]
       IN mvaddch(Paint(surface, SubSeq(queue, 1, Len(queue) - 1)),
                  item[2], item[1], Glyph(item[3]))

\* run, lines 602-616: draw the queue, clear it, sleep
Render ==
  /\ status = "running"
  /\ at = "draw"
  /\ screen' = Paint(screen, draw_queue)
  /\ draw_queue' = <<>>
  /\ \/ /\ clock + SLEEP_MS <= MaxClock
        /\ clock' = clock + SLEEP_MS
        /\ UNCHANGED stalls
     \/ /\ stalls < MaxStalls
        /\ clock + SLEEP_MS + StallMs <= MaxClock
        /\ clock' = clock + SLEEP_MS + StallMs
        /\ stalls' = stalls + 1
  /\ at' = "getch"
  /\ UNCHANGED <<ram, stack, pixels, v, i, pc, keys, delay_timer, sound_timer,
                 status, presses, hist>>

(* ------------------------------ emulate_cycle -------------------------- *)

fetch_at(addr) == peek(ram, addr) * 256 + peek(ram, addr + 1)
fetch == fetch_at(pc)

\* the machine as the cycle finds it
Snapshot ==
  [instr |-> IF pc + 1 < RAM_SIZE THEN fetch ELSE -1,
   ram |-> ram, stack |-> stack, pixels |-> pixels, v |-> v, i |-> i, pc |-> pc,
   keys |-> keys, delay_timer |-> delay_timer, sound_timer |-> sound_timer]

Remember == hist' = <<Snapshot>> \o SubSeq(hist, 1, Min(1, Len(hist)))

\* emulate_cycle reaches the handlers of family fam
Cycle(fam) ==
  /\ status = "running"
  /\ at = "cycle"
  /\ pc + 1 < RAM_SIZE
  /\ Family(fetch) = fam

\* the handler returns
Return ==
  /\ at' = "draw"
  /\ Remember
  /\ UNCHANGED <<screen, clock, status, presses, stalls>>

\* the handler panics: the process is aborted
Panic ==
  /\ status' = "panicked"
  /\ Remember
  /\ UNCHANGED <<screen, clock, at, presses, stalls>>

\* u8::overflowing_add
overflowing_add(a, b) == <<(a + b) % 256, a + b > 255>>
\* u8::overflowing_sub
overflowing_sub(a, b) == <<(a - b + 256) % 256, a < b>>

carry_flag_cleared_on_carry(overflow) == IF overflow THEN 0 ELSE 1
\* reg_add: if overflow {1} else {0}
carry_flag(overflow) == IF overflow THEN 1 ELSE 0

borrow_flag_set_on_borrow(overflow) == IF overflow THEN 1 ELSE 0
\* reg_subtract: if overflow {0} else {1}
borrow_flag(overflow) == IF overflow THEN 0 ELSE 1

reg_add ==
  /\ Cycle(8) /\ Low4(fetch) = 4
  /\ LET reg1 == RegX(fetch)
         reg2 == RegY(fetch)
         r == overflowing_add(v[reg1], v[reg2])
         flagged == [v EXCEPT ![15] = carry_flag(r[2])]
     IN v' = [flagged EXCEPT ![reg1] = r[1]]
  /\ pc' = pc + 2
  /\ Return
  /\ UNCHANGED <<ram, stack, pixels, i, keys, delay_timer, sound_timer, draw_queue>>

reg_subtract ==
  /\ Cycle(8) /\ Low4(fetch) = 5
  /\ LET reg1 == RegX(fetch)
         reg2 == RegY(fetch)
         r == overflowing_sub(v[reg1], v[reg2])
         flagged == [v EXCEPT ![15] = borrow_flag(r[2])]
     IN v' = [flagged EXCEPT ![reg1] = r[1]]
  /\ pc' = pc + 2
  /\ Return
  /\ UNCHANGED <<ram, stack, pixels, i, keys, delay_timer, sound_timer, draw_queue>>

shift_right ==
  /\ Cycle(8) /\ Low4(fetch) = 6
  /\ LET reg == RegX(fetch)
         val == v[reg]
         flagged == [v EXCEPT ![15] = BitAnd(1, val)]
     IN v' = [flagged EXCEPT ![reg] = val \div 2]
  /\ pc' = pc + 2
  /\ Return
  /\ UNCHANGED <<ram, stack, pixels, i, keys, delay_timer, sound_timer, draw_queue>>

set_register ==
  /\ Cycle(6)
  /\ v' = [v EXCEPT ![RegX(fetch)] = Low8(fetch)]
  /\ pc' = pc + 2
  /\ Return
  /\ UNCHANGED <<ram, stack, pixels, i, keys, delay_timer, sound_timer, draw_queue>>

add_const_to_v ==
  /\ Cycle(7)
  /\ v' = [v EXCEPT ![RegX(fetch)] = (@ + Low8(fetch)) % 256]
  /\ pc' = pc + 2
  /\ Return
  /\ UNCHANGED <<ram, stack, pixels, i, keys, delay_timer, sound_timer, draw_queue>>

reg_set ==
  /\ Cycle(8) /\ Low4(fetch) = 0
  /\ v' = [v EXCEPT ![RegX(fetch)] = v[RegY(fetch)]]
  /\ pc' = pc + 2
  /\ Return
  /\ UNCHANGED <<ram, stack, pixels, i, keys, delay_timer, sound_timer, draw_queue>>

reg_and ==
  /\ Cycle(8) /\ Low4(fetch) = 2
  /\ v' = [v EXCEPT ![RegX(fetch)] = BitAnd(v[RegX(fetch)], v[RegY(fetch)])]
  /\ pc' = pc + 2
  /\ Return
  /\ UNCHANGED <<ram, stack, pixels, i, keys, delay_timer, sound_timer, draw_queue>>

\* the sum kept without the reduction to 12 bits
add_reg_to_i_without_wrap ==
  /\ Cycle(15) /\ Low8(fetch) = 30
  /\ LET sum == i + v[RegX(fetch)]
     IN /\ v' = [v EXCEPT ![15] = IF sum > 4095 THEN 1 ELSE 0]
        /\ i' = sum
  /\ pc' = pc + 2
  /\ Return
  /\ UNCHANGED <<ram, stack, pixels, keys, delay_timer, sound_timer, draw_queue>>

add_reg_to_i ==
  /\ Cycle(15) /\ Low8(fetch) = 30
  /\ LET sum == i + v[RegX(fetch)]
     IN /\ v' = [v EXCEPT ![15] = IF sum > 4095 THEN 1 ELSE 0]
        /\ i' = sum % 4096
  /\ pc' = pc + 2
  /\ Return
  /\ UNCHANGED <<ram, stack, pixels, keys, delay_timer, sound_timer, draw_queue>>

clear_screen_one_row_short ==
  /\ Cycle(0) /\ Low12(fetch) = 224
  /\ pixels' = { c \in pixels : c[2] = SCREEN_HEIGHT - 1 }
  /\ pc' = pc + 2
  /\ Return
  /\ UNCHANGED <<ram, stack, v, i, keys, delay_timer, sound_timer, draw_queue>>

clear_screen ==
  /\ Cycle(0) /\ Low12(fetch) = 224
  /\ pixels' = AllOff
  /\ pc' = pc + 2
  /\ Return
  /\ UNCHANGED <<ram, stack, v, i, keys, delay_timer, sound_timer, draw_queue>>

jump ==
  /\ Cycle(1)
  /\ pc' = Low12(fetch)
  /\ Return
  /\ UNCHANGED <<ram, stack, pixels, v, i, keys, delay_timer, sound_timer, draw_queue>>

\* a call that pushes the address after itself
jump_subroutine_pushing_next ==
  /\ Cycle(2)
  /\ Len(stack) < MaxStack
  /\ stack' = Append(stack, pc + 2)
  /\ pc' = Low12(fetch)
  /\ Return
  /\ UNCHANGED <<ram, pixels, v, i, keys, delay_timer, sound_timer, draw_queue>>

jump_subroutine ==
  /\ Cycle(2)
  /\ Len(stack) < MaxStack
  /\ stack' = Append(stack, pc)
  /\ pc' = Low12(fetch)
  /\ Return
  /\ UNCHANGED <<ram, pixels, v, i, keys, delay_timer, sound_timer, draw_queue>>

ret_ignoring_empty_stack ==
  /\ Cycle(0) /\ Low12(fetch) = 238
  /\ IF stack = <<>>
     THEN /\ pc' = pc + 2
          /\ Return
          /\ UNCHANGED <<ram, stack, pixels, v, i, keys, delay_timer, sound_timer,
                         draw_queue>>
     ELSE /\ stack' = SubSeq(stack, 1, Len(stack) - 1)
          /\ pc' = stack[Len(stack)] + 2
          /\ Return
          /\ UNCHANGED <<ram, pixels, v, i, keys, delay_timer, sound_timer, draw_queue>>

\* ret: Vec::pop gives None on the empty stack and the closure panics
ret ==
  /\ Cycle(0) /\ Low12(fetch) = 238
  /\ IF stack = <<>>
     THEN /\ Panic
          /\ UNCHANGED chip
     ELSE /\ stack' = SubSeq(stack, 1, Len(stack) - 1)
          /\ pc' = stack[Len(stack)] + 2
          /\ Return
          /\ UNCHANGED <<ram, pixels, v, i, keys, delay_timer, sound_timer, draw_queue>>

skip_if_equal ==
  /\ Cycle(3)
  /\ pc' = pc + (IF v[RegX(fetch)] = Low8(fetch) THEN 4 ELSE 2)
  /\ Return
  /\ UNCHANGED <<ram, stack, pixels, v, i, keys, delay_timer, sound_timer, draw_queue>>

skip_if_unequal ==
  /\ Cycle(4)
  /\ pc' = pc + (IF v[RegX(fetch)] = Low8(fetch) THEN 2 ELSE 4)
  /\ Return
  /\ UNCHANGED <<ram, stack, pixels, v, i, keys, delay_timer, sound_timer, draw_queue>>

skip_if_regs_unequal ==
  /\ Cycle(9) /\ Low4(fetch) = 0
  /\ pc' = pc + (IF v[RegX(fetch)] # v[RegY(fetch)] THEN 4 ELSE 2)
  /\ Return
  /\ UNCHANGED <<ram, stack, pixels, v, i, keys, delay_timer, sound_timer, draw_queue>>

set_index ==
  /\ Cycle(10)
  /\ i' = Low12(fetch)
  /\ pc' = pc + 2
  /\ Return
  /\ UNCHANGED <<ram, stack, pixels, v, keys, delay_timer, sound_timer, draw_queue>>

\* gen_range(0, 255): the upper end is excluded
RandomBytes == 0 .. 254

rand ==
  /\ Cycle(12)
  /\ \E random \in RandomBytes :
       v' = [v EXCEPT ![RegX(fetch)] = BitAnd(Low8(fetch), random)]
  /\ pc' = pc + 2
  /\ Return
  /\ UNCHANGED <<ram, stack, pixels, i, keys, delay_timer, sound_timer, draw_queue>>

(* draw_sprite *)

flip_turns_on(p) == "On"
\* Pixel::flip
flip(p) == IF p = "On" THEN "Off" ELSE "On"

needs_flip_lowest_bit_first(byte, j) == BitAnd(byte, Pow2(j)) > 0
\* byte & (1 << (7-j)) > 0
needs_flip(byte, j) == BitAnd(byte, Pow2(7 - j)) > 0

\* the two `continue` tests of the loops: the pixel lies on the screen
on_screen(x, y) == ~(y >= SCREEN_HEIGHT) /\ ~(x >= SCREEN_WIDTH)

queue_item_row_first(x, y, p) == <<y, x, p>>
\* the tuple pushed on draw_queue: (x as u8, y as u8, self.pixels[x][y])
queue_item(x, y, p) == <<x, y, p>>

\* the body of the inner loop at row st.row, column st.j
draw_cell(st, x_start, y_start, mem_start) ==
  LET byte == peek(ram, mem_start + st.row)
      y == y_start + st.row
      x == x_start + st.j
      old == pixel(st.pixels, x, y)
  IN IF on_screen(x, y) /\ needs_flip(byte, st.j)
     THEN [st EXCEPT !.pixels = set_pixel(st.pixels, x, y, flip(old)),
                     !.queue = Append(st.queue, queue_item(x, y, flip(old))),
                     !.collision = st.collision \/ old = "On",
                     !.j = st.j + 1]
     ELSE [st EXCEPT !.j = st.j + 1]

\* for j in 0..8
RECURSIVE draw_row(_, _, _, _)
draw_row(st, x_start, y_start, mem_start) ==
  IF st.j >= 8 THEN st
  ELSE draw_row(draw_cell(st, x_start, y_start, mem_start), x_start, y_start, mem_start)

\* for i in 0..n, as far as row `rows`
RECURSIVE draw_rows(_, _, _, _, _)
draw_rows(st, x_start, y_start, mem_start, rows) ==
  IF st.row >= rows THEN st
  ELSE LET done == draw_row([st EXCEPT !.j = 0], x_start, y_start, mem_start)
       IN draw_rows([done EXCEPT !.row = st.row + 1], x_start, y_start, mem_start, rows)

draw_sprite ==
  /\ Cycle(13)
  /\ LET x_start == v[RegX(fetch)]
         y_start == v[RegY(fetch)]
         n == Low4(fetch)
         \* rows read before ram[mem_start + i] leaves the array
         rows == Min(n, RAM_SIZE - i)
         st == draw_rows([pixels |-> pixels, queue |-> draw_queue, collision |-> FALSE,
                          row |-> 0, j |-> 0],
                         x_start, y_start, i, rows)
     IN /\ pixels' = st.pixels
        /\ draw_queue' = st.queue
        /\ IF rows < n
           THEN /\ Panic
                /\ UNCHANGED <<v, pc>>
           ELSE /\ v' = [v EXCEPT ![15] = IF st.collision THEN 1 ELSE 0]
                /\ pc' = pc + 2
                /\ Return
  /\ UNCHANGED <<ram, stack, i, keys, delay_timer, sound_timer>>

(* keys *)

skip_on_key_without_reset(when_up, when_down) ==
  LET key_index == v[RegX(fetch)]
  IN IF key_index >= NUM_KEYS
     THEN /\ Panic
          /\ UNCHANGED chip
     ELSE /\ pc' = pc + (IF keys[key_index] = "Up" THEN when_up ELSE when_down)
          /\ Return
          /\ UNCHANGED <<ram, stack, pixels, v, i, keys, delay_timer, sound_timer,
                         draw_queue>>

\* test_key: the key's state, and the key set back to Up
skip_on_key(when_up, when_down) ==
  LET key_index == v[RegX(fetch)]
  IN IF key_index >= NUM_KEYS
     THEN /\ Panic
          /\ UNCHANGED chip
     ELSE /\ keys' = [keys EXCEPT ![key_index] = "Up"]
          /\ pc' = pc + (IF keys[key_index] = "Up" THEN when_up ELSE when_down)
          /\ Return
          /\ UNCHANGED <<ram, stack, pixels, v, i, delay_timer, sound_timer, draw_queue>>

skip_if_key ==
  /\ Cycle(14) /\ Low8(fetch) = 158
  /\ skip_on_key(2, 4)

skip_if_not_key ==
  /\ Cycle(14) /\ Low8(fetch) = 161
  /\ skip_on_key(4, 2)

(* timers *)

\* a timer whose subtraction wraps instead of saturating
get_value_wrapping(timer, now) ==
  LET millis == now - timer.start_instant
      ticks == (millis * 60) \div 1000
      as_u8 == Min(ticks, 255)
  IN (timer.start_count + 256 - as_u8) % 256

\* Timer::get_value
get_value(timer, now) ==
  LET millis == now - timer.start_instant
      ticks == (millis * 60) \div 1000
      as_u8 == Min(ticks, 255)
  IN IF timer.start_count > as_u8 THEN timer.start_count - as_u8 ELSE 0

get_delay_timer ==
  /\ Cycle(15) /\ Low8(fetch) = 7
  /\ v' = [v EXCEPT ![RegX(fetch)] = get_value(delay_timer, clock)]
  /\ pc' = pc + 2
  /\ Return
  /\ UNCHANGED <<ram, stack, pixels, i, keys, delay_timer, sound_timer, draw_queue>>

set_delay_timer ==
  /\ Cycle(15) /\ Low8(fetch) = 21
  /\ delay_timer' = [start_count |-> v[RegX(fetch)], start_instant |-> clock]
  /\ pc' = pc + 2
  /\ Return
  /\ UNCHANGED <<ram, stack, pixels, v, i, keys, sound_timer, draw_queue>>

set_sound_timer ==
  /\ Cycle(15) /\ Low8(fetch) = 24
  /\ sound_timer' = v[RegX(fetch)]
  /\ pc' = pc + 2
  /\ Return
  /\ UNCHANGED <<ram, stack, pixels, v, i, keys, delay_timer, draw_queue>>

(* memory *)

\* a glyph address counted from 0 instead of FONT_START
set_char_location_from_zero ==
  /\ Cycle(15) /\ Low8(fetch) = 41
  /\ i' = v[RegX(fetch)] * 5
  /\ pc' = pc + 2
  /\ Return
  /\ UNCHANGED <<ram, stack, pixels, v, keys, delay_timer, sound_timer, draw_queue>>

set_char_location ==
  /\ Cycle(15) /\ Low8(fetch) = 41
  /\ i' = FONT_START + v[RegX(fetch)] * 5
  /\ pc' = pc + 2
  /\ Return
  /\ UNCHANGED <<ram, stack, pixels, v, keys, delay_timer, sound_timer, draw_queue>>

\* hundreds, tens, ones of set_bcd
\* the tens digit taken from the whole value
bcd_tens_of_whole(val) ==
  LET hundreds == val \div 100
      tens == val \div 10
      ones == val - 100 * hundreds - 10 * (tens % 10)
  IN <<hundreds, tens, ones>>

bcd(val) ==
  LET hundreds == val \div 100
      tens == (val - 100 * hundreds) \div 10
      ones == val - 100 * hundreds - 10 * tens
  IN <<hundreds, tens, ones>>

\* the three stores of set_bcd; a store past the end of ram panics
set_bcd ==
  /\ Cycle(15) /\ Low8(fetch) = 51
  /\ LET digits == bcd(v[RegX(fetch)])
         stores == Min(3, RAM_SIZE - i)
         stored1 == IF stores >= 1 THEN poke(ram, i, digits[1]) ELSE ram
         stored2 == IF stores >= 2 THEN poke(stored1, i + 1, digits[2]) ELSE stored1
         stored3 == IF stores >= 3 THEN poke(stored2, i + 2, digits[3]) ELSE stored2
     IN /\ ram' = stored3
        /\ IF stores < 3
           THEN /\ Panic
                /\ UNCHANGED pc
           ELSE /\ pc' = pc + 2
                /\ Return
  /\ UNCHANGED <<stack, pixels, v, i, keys, delay_timer, sound_timer, draw_queue>>

\* the loads of reg_load; a load past the end of ram panics
reg_load ==
  /\ Cycle(15) /\ Low8(fetch) = 101
  /\ LET count == RegX(fetch) + 1
         loads == Min(count, RAM_SIZE - i)
     IN /\ v' = [reg \in 0 .. 15 |-> IF reg < loads THEN peek(ram, i + reg) ELSE v[reg]]
        /\ IF loads < count
           THEN /\ Panic
                /\ UNCHANGED pc
           ELSE /\ pc' = pc + 2
                /\ Return
  /\ UNCHANGED <<ram, stack, pixels, i, keys, delay_timer, sound_timer, draw_queue>>

\* fetch_at: ram[addr] or ram[addr + 1] is past the end of ram
fetch_out_of_bounds ==
  /\ status = "running"
  /\ at = "cycle"
  /\ ~(pc + 1 < RAM_SIZE)
  /\ Panic
  /\ UNCHANGED chip

\* a decoder whose 8xy6 arm is missing
Recognized_without_shift(instr) ==
  CASE Family(instr) = 0 -> Low12(instr) \in {224, 238}
    [] Family(instr) \in {1, 2, 3, 4, 6, 7, 10, 12, 13} -> TRUE
    [] Family(instr) = 8 -> Low4(instr) \in {0, 2, 4, 5}
    [] Family(instr) = 9 -> Low4(instr) = 0
    [] Family(instr) = 14 -> Low8(instr) \in {158, 161}
    [] Family(instr) = 15 -> Low8(instr) \in {7, 21, 24, 30, 41, 51, 101}
    [] OTHER -> FALSE

\* emulate_cycle: the panic! arms of the match
Recognized(instr) ==
  CASE Family(instr) = 0 -> Low12(instr) \in {224, 238}
    [] Family(instr) \in {1, 2, 3, 4, 6, 7, 10, 12, 13} -> TRUE
    [] Family(instr) = 8 -> Low4(instr) \in {0, 2, 4, 5, 6}
    [] Family(instr) = 9 -> Low4(instr) = 0
    [] Family(instr) = 14 -> Low8(instr) \in {158, 161}
    [] Family(instr) = 15 -> Low8(instr) \in {7, 21, 24, 30, 41, 51, 101}
    [] OTHER -> FALSE

unrecognized ==
  /\ status = "running"
  /\ at = "cycle"
  /\ pc + 1 < RAM_SIZE
  /\ ~Recognized(fetch)
  /\ Panic
  /\ UNCHANGED chip

Next ==
  \/ GetKey
  \/ Render
  \/ fetch_out_of_bounds
  \/ unrecognized
  \/ clear_screen
  \/ ret
  \/ jump
  \/ jump_subroutine
  \/ skip_if_equal
  \/ skip_if_unequal
  \/ set_register
  \/ add_const_to_v
  \/ reg_set
  \/ reg_and
  \/ reg_add
  \/ reg_subtract
  \/ shift_right
  \/ skip_if_regs_unequal
  \/ set_index
  \/ rand
  \/ draw_sprite
  \/ skip_if_key
  \/ skip_if_not_key
  \/ get_delay_timer
  \/ set_delay_timer
  \/ set_sound_timer
  \/ add_reg_to_i
  \/ set_char_location
  \/ set_bcd
  \/ reg_load

Spec == Init /\ [][Next]_vars

(* ------------------------------- properties ---------------------------- *)

\* a cycle has just ended: its handler returned, or panicked
Stepped == hist # <<>> /\ (at = "draw" \/ status = "panicked")
\* the machine before that cycle
Before == hist[1]
\* that cycle executed an instruction of this family whose handler returned
Ran(fam) == Stepped /\ status = "running" /\ Family(Before.instr) = fam
X == RegX(Before.instr)
Y == RegY(Before.instr)

\* C1: one step of 8xy4 with x # F leaves Vx = (a + b) mod 256, VF = 1 if
\* a + b > 255 and VF = 0 otherwise, and PC advanced by 2, where a and b are
\* Vx and Vy before the step.
C1_AddCarry ==
  (Ran(8) /\ Low4(Before.instr) = 4 /\ X # 15) =>
    LET a == Before.v[X]
        b == Before.v[Y]
    IN /\ v[X] = (a + b) % 256
       /\ (a + b > 255 => v[15] = 1)
       /\ (a + b <= 255 => v[15] = 0)
       /\ pc = Before.pc + 2

\* an 8xy4 that carried into exactly 256, and one whose y is the flag register
C1_Witness ==
  /\ Ran(8) /\ Low4(Before.instr) = 4 /\ X # 15
  /\ Before.v[X] + Before.v[Y] = 256
  /\ Before.v[X] # Before.v[Y]

\* C2: one step of 8xy5 with x # F leaves Vx = (a - b) mod 256, VF = 0 if
\* a < b and VF = 1 otherwise, and PC advanced by 2.
C2_SubBorrow ==
  (Ran(8) /\ Low4(Before.instr) = 5 /\ X # 15) =>
    LET a == Before.v[X]
        b == Before.v[Y]
    IN /\ v[X] = (IF a >= b THEN a - b ELSE a - b + 256)
       /\ (a < b => v[15] = 0)
       /\ (a >= b => v[15] = 1)
       /\ pc = Before.pc + 2

\* an 8xy5 that borrowed
C2_Witness ==
  /\ Ran(8) /\ Low4(Before.instr) = 5 /\ X # 15
  /\ Before.v[X] < Before.v[Y]
  /\ v[X] = 255

\* the symmetric difference of two sets of pixels
Changed(p, q) == (p \ q) \cup (q \ p)
\* bit j of a sprite row, most significant first
Bit(byte, j) == (byte \div Pow2(7 - j)) % 2
\* the (row, column) pairs of the last cycle's sprite whose bit is 1
MarkedBits ==
  { rj \in (0 .. (Low4(Before.instr) - 1)) \X (0 .. 7) :
      Bit(peek(Before.ram, Before.i + rj[1]), rj[2]) = 1 }
\* the coordinates that sprite marks, wherever they fall
Marked == { <<Before.v[X] + rj[2], Before.v[Y] + rj[1]>> : rj \in MarkedBits }

\* C3: after every flag-defining opcode (8xy4, 8xy5, 8xy6, Fx1E, Dxyn), for
\* every x and y including F, VF holds the flag: carry, not-borrow,
\* shifted-out bit, I overflow, collision.
C3_FlagWrittenLast ==
  /\ (Ran(8) /\ Low4(Before.instr) = 4) =>
       v[15] = (IF Before.v[X] + Before.v[Y] > 255 THEN 1 ELSE 0)
  /\ (Ran(8) /\ Low4(Before.instr) = 5) =>
       v[15] = (IF Before.v[X] < Before.v[Y] THEN 0 ELSE 1)
  /\ (Ran(8) /\ Low4(Before.instr) = 6) =>
       v[15] = Before.v[X] % 2
  /\ (Ran(15) /\ Low8(Before.instr) = 30) =>
       v[15] = (IF Before.i + Before.v[X] > 4095 THEN 1 ELSE 0)
  /\ Ran(13) =>
       v[15] = (IF Marked \cap Before.pixels # {} THEN 1 ELSE 0)


\* C4: one step of Dxyn flips exactly the pixels (Vx + j, Vy + i) whose bit j
\* (most significant first) of row i is 1 and that lie inside the 64x32
\* grid; pixels outside the grid are dropped, not wrapped; every other pixel
\* is unchanged; VF = 1 if a flipped pixel was on before the step, else 0;
\* PC advances by 2. The sprite rows are ram[I .. I+n), all inside ram.
C4_DrawSprite ==
  Ran(13) =>
    /\ Changed(Before.pixels, pixels) = Marked \cap Grid
    /\ pixels \subseteq Grid
    /\ v[15] = (IF Marked \cap Before.pixels # {} THEN 1 ELSE 0)
    /\ pc = Before.pc + 2

\* a draw that is clipped on the right and at the bottom, flips pixels off and on
C4_Witness ==
  /\ Ran(13)
  /\ Marked \ Grid # {}
  /\ \E c \in Marked : c[1] >= SCREEN_WIDTH /\ c[2] < SCREEN_HEIGHT
  /\ \E c \in Marked : c[2] >= SCREEN_HEIGHT /\ c[1] < SCREEN_WIDTH
  /\ Before.pixels \ pixels # {}
  /\ pixels \ Before.pixels # {}
  /\ v[15] = 1

\* the last two cycles executed the same Dxyn, one after the other, with the
\* same Vx, Vy, I and sprite bytes, x and y not the flag register
DrewTwice ==
  /\ Ran(13)
  /\ Len(hist) = 2
  /\ hist[2].instr = Before.instr
  /\ Before.pc = hist[2].pc + 2
  /\ X # 15 /\ Y # 15
  /\ hist[2].v[X] = Before.v[X]
  /\ hist[2].v[Y] = Before.v[Y]
  /\ hist[2].i = Before.i
  /\ \A row \in 0 .. (Low4(Before.instr) - 1) :
       peek(hist[2].ram, Before.i + row) = peek(Before.ram, Before.i + row)

\* C5: the same Dxyn executed twice in a row returns the framebuffer to its
\* state before the first draw, and the second draw sets VF = 1 whenever the
\* first draw turned a pixel on.
C5_DrawTwice ==
  DrewTwice =>
    /\ pixels = hist[2].pixels
    /\ (Before.pixels \ hist[2].pixels # {} => v[15] = 1)

\* a clipped sprite drawn twice over pixels that were on: the first draw turned
\* pixels on and off
C5_Witness ==
  /\ DrewTwice
  /\ Marked \ Grid # {}
  /\ Before.pixels \ hist[2].pixels # {}
  /\ hist[2].pixels \ Before.pixels # {}

\* the coordinates of the queued entries
Queued == { <<draw_queue[k][1], draw_queue[k][2]>> : k \in DOMAIN draw_queue }

C7_ScreenShowsPixels ==
  (status = "running" /\ at = "getch") => screen = pixels

\* C8: one step of 00E0 leaves every pixel off, PC advanced by 2, and the V
\* registers, I, ram, the call stack, the keys and the timers unchanged.
C8_ClearScreen ==
  (Stepped /\ Before.instr = 224) =>
    /\ status = "running"
    /\ \A c \in Grid : pixel(pixels, c[1], c[2]) = "Off"
    /\ pc = Before.pc + 2
    /\ v = Before.v
    /\ i = Before.i
    /\ \A a \in 0 .. (RAM_SIZE - 1) : peek(ram, a) = peek(Before.ram, a)
    /\ stack = Before.stack
    /\ keys = Before.keys
    /\ delay_timer = Before.delay_timer
    /\ sound_timer = Before.sound_timer

\* a 00E0 of a screen with pixels on in the last column and in the last row,
\* with registers, I and a key set
C8_Witness ==
  /\ Stepped /\ Before.instr = 224
  /\ \E c \in Before.pixels : c[1] = SCREEN_WIDTH - 1
  /\ \E c \in Before.pixels : c[2] = SCREEN_HEIGHT - 1
  /\ v[0] # 0 /\ i # 0
  /\ \E k \in 0 .. (NUM_KEYS - 1) : keys[k] = "Down"

\* the last cycle executed Ex9E or ExA1 on a key of the pad
TestedKey ==
  /\ Ran(14)
  /\ Low8(Before.instr) \in {158, 161}
  /\ Before.v[X] < NUM_KEYS

\* C9: Ex9E / ExA1 with Vx = k in 0..15 leave key k Up; Ex9E advances PC by 4
\* if key k was Down and by 2 otherwise, ExA1 by 4 if it was Up and by 2
\* otherwise; the other keys are unchanged; and a key that is Down stays Down
\* in every step but such a test of that key.
C9_KeyTest ==
  /\ [](TestedKey =>
          LET k == Before.v[X]
              was == Before.keys[k]
          IN /\ keys[k] = "Up"
             /\ Low8(Before.instr) = 158 =>
                  pc = Before.pc + (IF was = "Down" THEN 4 ELSE 2)
             /\ Low8(Before.instr) = 161 =>
                  pc = Before.pc + (IF was = "Up" THEN 4 ELSE 2)
             /\ \A o \in 0 .. (NUM_KEYS - 1) : o # k => keys[o] = Before.keys[o])
  /\ [][\A k \in 0 .. (NUM_KEYS - 1) :
          (keys[k] = "Down" /\ keys'[k] = "Up") =>
            /\ at = "cycle"
            /\ Family(fetch) = 14
            /\ Low8(fetch) \in {158, 161}
            /\ v[RegX(fetch)] = k]_vars

\* an Ex9E that skipped on a pressed key while another key stayed Down
C9_Witness ==
  /\ TestedKey
  /\ Low8(Before.instr) = 158
  /\ Before.keys[Before.v[X]] = "Down"
  /\ pc = Before.pc + 4
  /\ \E o \in 0 .. (NUM_KEYS - 1) : keys[o] = "Down"

\* C10: 00EE on the empty call stack ends the run in a panic: PC is not
\* advanced, no register, memory, pixel or key state changes, and no step
\* follows a panic.
C10_EmptyReturn ==
  /\ []((hist # <<>> /\ Before.instr = 238 /\ Before.stack = <<>>) =>
          /\ status = "panicked"
          /\ pc = Before.pc
          /\ stack = <<>>
          /\ v = Before.v
          /\ i = Before.i
          /\ \A a \in 0 .. (RAM_SIZE - 1) : peek(ram, a) = peek(Before.ram, a)
          /\ pixels = Before.pixels
          /\ keys = Before.keys
          /\ draw_queue = <<>>)
  /\ [][status = "running"]_vars

\* a 00EE on the empty stack, after a call had returned and set a register
C10_Witness ==
  /\ status = "panicked"
  /\ hist # <<>> /\ Before.instr = 238 /\ Before.stack = <<>>
  /\ v[0] = 1
  /\ pc > INSTRUCTIONS_START

\* the words the decoder has no pattern for
NoPattern(w) ==
  \/ Family(w) = 0 /\ Low12(w) \notin {224, 238}
  \/ Family(w) \in {5, 11}
  \/ Family(w) = 8 /\ Low4(w) \notin {0, 2, 4, 5, 6}
  \/ Family(w) = 9 /\ Low4(w) # 0
  \/ Family(w) = 14 /\ Low8(w) \notin {158, 161}
  \/ Family(w) = 15 /\ Low8(w) \notin {7, 21, 24, 30, 41, 51, 101}

\* two memories hold the same bytes; an address neither has stored to holds 0
\* in both
SameBytes(m, n, except) ==
  \A a \in (DOMAIN m \cup DOMAIN n) \ except : peek(m, a) = peek(n, a)

\* the machine is exactly as it was before the last cycle
Untouched ==
  /\ pc = Before.pc
  /\ stack = Before.stack
  /\ v = Before.v
  /\ i = Before.i
  /\ SameBytes(ram, Before.ram, {})
  /\ pixels = Before.pixels
  /\ keys = Before.keys
  /\ delay_timer = Before.delay_timer
  /\ sound_timer = Before.sound_timer
  /\ draw_queue = <<>>

\* a handler of its own can end the cycle in a panic: a return on the empty
\* stack, an access past the end of ram, a key number past the keypad
HandlerPanics(b) ==
  \/ b.instr = 238 /\ b.stack = <<>>
  \/ Family(b.instr) = 13 /\ b.i + Low4(b.instr) > RAM_SIZE
  \/ Family(b.instr) = 15 /\ Low8(b.instr) = 51 /\ b.i + 3 > RAM_SIZE
  \/ Family(b.instr) = 15 /\ Low8(b.instr) = 101 /\ b.i + RegX(b.instr) + 1 > RAM_SIZE
  \/ Family(b.instr) = 14 /\ b.v[RegX(b.instr)] >= NUM_KEYS

\* C11: a fetched word that matches no recognized pattern ends the cycle in the
\* decoder's panic with PC and all other machine state unchanged; a word that
\* matches one is given to its handler, so the cycle returns unless that
\* handler itself panics.
C11_Decode ==
  (hist # <<>> /\ Before.instr >= 0) =>
    IF NoPattern(Before.instr)
    THEN status = "panicked" /\ Untouched
    ELSE status = "panicked" => HandlerPanics(Before)

\* a sprite was drawn, and the next word, 0000, stopped the machine
C11_Witness ==
  /\ status = "panicked"
  /\ Len(hist) = 2
  /\ NoPattern(Before.instr)
  /\ Family(hist[2].instr) = 13
  /\ pixels # {}
  /\ pc > INSTRUCTIONS_START

\* C12: in every reachable state the 80 bytes at FONT_START .. FONT_START + 79
\* are the font table written by initialize; no instruction, Fx33 with I inside
\* that range included, changes one of them.
C12_FontImmutable ==
  \A k \in 1 .. Len(FONT) : peek(ram, FONT_START + k - 1) = FONT[k]

\* the last cycle ran FxNN with this NN
RanF(nn) == Ran(15) /\ Low8(Before.instr) = nn

\* C13: Fx15 starts the delay timer with s = Vx at the time of the cycle, and
\* nothing else touches the timer; an Fx07 executed t milliseconds after the
\* start stores max(0, s - floor(t * 60 / 1000)) in Vx, which is never above s,
\* never above the value the previous read got from the same timer, and is 0
\* once t >= 1000 when s = 60.
C13_DelayTimer ==
  /\ hist = <<>> => delay_timer = [start_count |-> 0, start_instant |-> 0]
  /\ hist # <<>> =>
       IF status = "running" /\ Family(Before.instr) = 15 /\ Low8(Before.instr) = 21
       THEN /\ delay_timer.start_count = Before.v[X]
            /\ delay_timer.start_instant <= clock
            /\ Stepped => delay_timer.start_instant = clock
       ELSE delay_timer = Before.delay_timer
  /\ RanF(7) =>
       LET s == Before.delay_timer.start_count
           t == clock - Before.delay_timer.start_instant
           ticks == (t * 60) \div 1000
       IN /\ t >= 0
          /\ v[X] = (IF s - ticks > 0 THEN s - ticks ELSE 0)
          /\ v[X] >= 0 /\ v[X] <= s
          /\ (s = 60 /\ t >= 1000) => v[X] = 0
          /\ ticks >= s => v[X] = 0
          /\ \A r \in 0 .. 15 : r # X => v[r] = Before.v[r]
          /\ pc = Before.pc + 2
          /\ (Len(hist) = 2 /\ Family(hist[2].instr) = 15 /\ Low8(hist[2].instr) = 7) =>
               v[X] <= Before.v[RegX(hist[2].instr)]

\* a timer started with 60 read 60 at first and 0 a second later
C13_Witness ==
  /\ RanF(7)
  /\ Len(hist) = 2 /\ Family(hist[2].instr) = 15 /\ Low8(hist[2].instr) = 7
  /\ Before.delay_timer.start_count = 60
  /\ Before.v[RegX(hist[2].instr)] = 60
  /\ clock - Before.delay_timer.start_instant >= 1000
  /\ v[X] = 0

\* a read across the first tick: 60 at 16 ms, 59 at 18 ms
C13_FirstTick ==
  /\ RanF(7)
  /\ Len(hist) = 2 /\ Family(hist[2].instr) = 15 /\ Low8(hist[2].instr) = 7
  /\ Before.v[RegX(hist[2].instr)] = 60
  /\ clock - Before.delay_timer.start_instant = 18
  /\ v[X] = 59

\* the rom 60 0A F0 29 D0 05 has run its three instructions since initialize
GlyphScenario ==
  /\ Stepped
  /\ Len(hist) = 2
  /\ hist[2].pc = INSTRUCTIONS_START + 2 /\ hist[2].instr = OpB(15, 0, 41)
  /\ hist[1].pc = INSTRUCTIONS_START + 4 /\ hist[1].instr = Op(13, 0, 0, 5)
  /\ peek(ram, INSTRUCTIONS_START) = 96
  /\ peek(ram, INSTRUCTIONS_START + 1) = 10
  /\ hist[2].stack = <<>>
  /\ hist[2].pixels = {}

\* the On cells of the rows F0 90 F0 90 90 with the top-left corner at (x0, y0)
GlyphA(x0, y0) ==
  { <<x0 + c[1], y0 + c[2]>> :
      c \in { <<0, 0>>, <<1, 0>>, <<2, 0>>, <<3, 0>>,
              <<0, 1>>, <<3, 1>>,
              <<0, 2>>, <<1, 2>>, <<2, 2>>, <<3, 2>>,
              <<0, 3>>, <<3, 3>>,
              <<0, 4>>, <<3, 4>> } }

\* what the three steps leave, the glyph's corner at (x0, y0)
GlyphOutcome(x0, y0) ==
  /\ status = "running"
  /\ hist[2].v[0] = 10
  /\ hist[1].v[0] = 10
  /\ hist[1].i = FONT_START + 10 * 5
  /\ i = 130
  /\ pixels = GlyphA(x0, y0)
  /\ v = [r \in 0 .. 15 |-> IF r = 0 THEN 10 ELSE 0]
  /\ pc = 518

\* C14 as stated: the rom 60 0A F0 29 D0 05, run for three steps, sets
\* V0 = 0x0A, then I = 0x82, then draws the glyph A with its top-left corner
\* at (0,0), leaving VF = 0 and PC = 0x206.
C14_GlyphAtOrigin == GlyphScenario => GlyphOutcome(0, 0)

\* C14 amended: the same three steps draw the glyph A with its top-left
\* corner at (V0, V0) = (10,10), since D005 takes both coordinates from V0,
\* which holds 0x0A; V0 = 0x0A, I = 0x82, VF = 0 and PC = 0x206 as stated.
C14_GlyphAtV0 == GlyphScenario => GlyphOutcome(10, 10)

\* the three steps have run and the glyph's corners (10,10) and (13,14) are On
C14_Witness ==
  /\ GlyphScenario
  /\ <<10, 10>> \in pixels /\ <<13, 14>> \in pixels
  /\ <<0, 0>> \notin pixels
  /\ Cardinality(pixels) = 14

\* C15: one step of Fx33 with I + 2 <= 4095 stores Vx div 100, (Vx div 10) mod
\* 10 and Vx mod 10 at I, I + 1 and I + 2, each a digit 0..9 with
\* 100 h + 10 t + o = Vx; every other byte of memory, every V register and I
\* stay as they were, and PC advances by 2. The digits are those for every
\* 8-bit value.
C15_Bcd ==
  (Stepped /\ Family(Before.instr) = 15 /\ Low8(Before.instr) = 51
     /\ Before.i + 2 <= RAM_SIZE - 1) =>
    LET val == Before.v[X]
        a == Before.i
        h == peek(ram, a)
        t == peek(ram, a + 1)
        o == peek(ram, a + 2)
    IN /\ status = "running"
       /\ h = val \div 100
       /\ t = (val \div 10) % 10
       /\ o = val % 10
       /\ {h, t, o} \subseteq 0 .. 9
       /\ 100 * h + 10 * t + o = val
       /\ SameBytes(ram, Before.ram, {a, a + 1, a + 2})
       /\ v = Before.v
       /\ i = Before.i
       /\ pc = Before.pc + 2
       /\ \A b \in 0 .. 255 : bcd(b) = <<b \div 100, (b \div 10) % 10, b % 10>>

\* 157 stored as 1, 5, 7 in the last three bytes of memory
C15_Witness ==
  /\ RanF(51)
  /\ Before.v[X] = 157
  /\ Before.i = RAM_SIZE - 3
  /\ peek(ram, RAM_SIZE - 3) = 1
  /\ peek(ram, RAM_SIZE - 2) = 5
  /\ peek(ram, RAM_SIZE - 1) = 7

\* C16: no step of Dxyn, Fx33 or Fx65 fails because I plus the offset of one
\* of its memory accesses reaches 4096; the access is wrapped or clipped to an
\* address in 0 .. 4095 and the step completes.
C16_IndexInRange ==
  (Stepped /\ \/ Family(Before.instr) = 13
              \/ Family(Before.instr) = 15 /\ Low8(Before.instr) \in {51, 101}) =>
    \/ status = "running"
    \/ Before.i + (CASE Family(Before.instr) = 13 -> Low4(Before.instr)
                     [] Low8(Before.instr) = 51 -> 3
                     [] OTHER -> X + 1) <= RAM_SIZE

\* everything but PC and the stack is as it was before the last cycle
OnlyControlChanged ==
  /\ v = Before.v
  /\ i = Before.i
  /\ SameBytes(ram, Before.ram, {})
  /\ pixels = Before.pixels
  /\ keys = Before.keys

\* C17: 2nnn executed at address a pushes a on the stack and sets PC = nnn;
\* 00EE on a non-empty stack pops the most recently pushed address a that has
\* not been returned to and sets PC = a + 2; no other instruction touches the
\* stack; so a return that follows its call resumes right after the call with
\* the stack as it was before the call.
C17_CallReturn ==
  /\ (Stepped /\ Family(Before.instr) = 2) =>
       /\ status = "running"
       /\ stack = Append(Before.stack, Before.pc)
       /\ Len(stack) = Len(Before.stack) + 1
       /\ pc = Low12(Before.instr)
       /\ OnlyControlChanged
  /\ (Stepped /\ Before.instr = 238 /\ Before.stack # <<>>) =>
       /\ status = "running"
       /\ Before.stack = Append(stack, pc - 2)
       /\ Len(stack) = Len(Before.stack) - 1
       /\ OnlyControlChanged
  /\ (Stepped /\ Before.instr >= 0 /\ Family(Before.instr) # 2 /\ Before.instr # 238) =>
       stack = Before.stack
  /\ (Stepped /\ Len(hist) = 2 /\ Family(hist[2].instr) = 2 /\ Before.instr = 238) =>
       /\ pc = hist[2].pc + 2
       /\ stack = hist[2].stack

\* the inner of two nested calls returns: PC is after the inner call and the
\* outer call's address is still on the stack
C17_Witness ==
  /\ Ran(0) /\ Before.instr = 238
  /\ Len(hist) = 2 /\ Family(hist[2].instr) = 2
  /\ Len(Before.stack) = 2
  /\ stack = <<INSTRUCTIONS_START>>
  /\ pc = Before.stack[2] + 2
  /\ pc # Before.stack[1] + 2

\* C18: in every reachable state PC <= 0xFFE, so that the fetch of the bytes
\* at PC and PC + 1 stays inside the 4096 bytes of memory, whatever advance,
\* jump, call or return set PC.
C18_FetchInRange == pc + 1 <= RAM_SIZE - 1

\* C19: I <= 0xFFF in every reachable state. Annn sets I to nnn; Fx1E sets I
\* to (I + Vx) mod 4096 and VF to 1 exactly when I + Vx > 4095, else to 0;
\* Fx29 sets I to 0x50 + 5 * Vx, which is at most 0xFFF for every byte Vx; no
\* other instruction changes I.
C19_IndexRegister ==
  /\ i \in 0 .. 4095
  /\ Ran(10) => i = Low12(Before.instr)
  /\ RanF(30) =>
       LET sum == Before.i + Before.v[X]
       IN /\ i = sum % 4096
          /\ v[15] = 1 <=> sum > 4095
          /\ v[15] \in {0, 1}
  /\ RanF(41) => i = 80 + 5 * Before.v[X]
  /\ \A b \in 0 .. 255 : 80 + 5 * b <= 4095
  /\ (Stepped /\ ~Ran(10) /\ ~RanF(30) /\ ~RanF(41)) => i = Before.i

\* I = 0xFFF and Vx = 1: Fx1E wrapped I to 0 and set VF
C19_Witness ==
  /\ RanF(30)
  /\ Before.i = 4095
  /\ Before.v[X] = 1
  /\ i = 0
  /\ v[15] = 1

\* C20: one step of Cxnn leaves in Vx a value with no bit set that is clear in
\* nn, changes no other register and advances PC by 2; and every value val
\* with (val AND nn) = val can be the outcome of the step, 0xFF for nn = 0xFF
\* included.
C20_Random ==
  /\ Ran(12) =>
       /\ BitAnd(v[X], Low8(Before.instr)) = v[X]
       /\ \A r \in 0 .. 15 : r # X => v[r] = Before.v[r]
       /\ pc = Before.pc + 2
  /\ (status = "running" /\ at = "cycle" /\ pc + 1 < RAM_SIZE /\ Family(fetch) = 12) =>
       \A val \in 0 .. 255 :
         BitAnd(val, Low8(fetch)) = val => ENABLED (rand /\ v'[RegX(fetch)] = val)

====
